---- MODULE Spec2Model ----
(***************************************************************************)
(* BrowserTrace agent: the event ingestion and persistence pipeline.       *)
(*   internal/models/models.go      Event, Batch and their wire form       *)
(*   internal/database/database.go  NewDatabase, Close, ValidateEvent,     *)
(*                                  InsertEvents                           *)
(*   server.go                      handleHealthz, handleEvents, Start     *)
(*   cmd/browsetrace-agent/main.go  main                                   *)
(***************************************************************************)
EXTENDS Integers, Sequences, FiniteSets, TLC

(***************************************************************************)
(* Bounds of the model.                                                    *)
(***************************************************************************)
\* longest batch a caller submits
MaxBatch == 2
\* number of calls (HTTP requests or direct InsertEvents calls) in one run
NumCalls == 2

Calls == 1..NumCalls

(***************************************************************************)
(* State.                                                                  *)
(***************************************************************************)
VARIABLES
    mainPc,     \* main: "start", "serving", "draining", "stopped", "exited"
    dbState,    \* store handle: "Unopened", "Ready", "Closed", "Failed", "Abandoned"
    rows,       \* committed rows of the events table, in rowid order
    writer,     \* the call whose transaction holds the write lock, or 0
    call,       \* call |-> its input, while it runs
    pc,         \* call |-> "new", "begin", "loop", "commit", "gone", "killed"
    i,          \* call |-> index of the next event of the range loop
    staged,     \* call |-> rows written by its transaction, not yet committed
    ops,        \* call |-> the database/sql calls it has made, in order
    returned,   \* the call that returned in the last step, with its result
    vEvent,     \* ValidateEvent applied on its own: the argument
    vResult,    \* ... and the result
    vRow,       \* the INSERT applied to the argument on its own: the result
    vTrip,      \* a batch of the argument encoded and decoded again: the result
    openErr,    \* the error NewDatabase returned to main, once it has run
    schema,     \* the tables and indexes of the database file, in creation order
    BROWSETRACE_ADDRESS,  \* the environment variable: <<>> unset, <<v>> set to v
    serverAddress         \* the address main passes to NewServer, once chosen

(***************************************************************************)
(* models.Event.  A *string is a sequence: <<>> is the nil pointer, <<s>>  *)
(* points at s.  A map[string]any is one of four representative maps.      *)
(***************************************************************************)
NilTitle == <<>>

DataNil   == "map(nil)"
DataEmpty == "map{}"
DataObj   == "map{x:100}"
\* a map holding a value encoding/json cannot encode (a channel); only a Go
\* caller can build it, the JSON decoder never produces it
DataChan  == "map{c:chan}"

Event(ts, iso, url, title, type, data) ==
    [TSUTC |-> ts, TSISO |-> iso, URL |-> url, Title |-> title, Type |-> type, Data |-> data]

(***************************************************************************)
(* Database.validEventTypes: a Go map; a missing key reads as false.       *)
(***************************************************************************)
validEventTypes ==
    [t \in {"navigate", "visible_text", "click", "input", "scroll", "focus"} |-> TRUE]

MapLookup(m, k) == IF k \in DOMAIN m THEN m[k] ELSE FALSE

NoError == "nil"

\* a ValidateEvent that wants a ts_iso
ValidateEvent_checksISO(event) ==
    IF event.URL = "" THEN "URL cannot be empty"
    ELSE IF event.Type = "" THEN "Type cannot be empty"
    ELSE IF ~MapLookup(validEventTypes, event.Type) THEN "invalid event type: " \o event.Type
    ELSE IF event.TSUTC <= 0 THEN "timestamp must be positive"
    ELSE IF event.TSISO = "" THEN "ts_iso cannot be empty"
    ELSE NoError

\* ValidateEvent without its URL check
ValidateEvent_noURL(event) ==
    IF event.Type = "" THEN "Type cannot be empty"
    ELSE IF ~MapLookup(validEventTypes, event.Type) THEN "invalid event type: " \o event.Type
    ELSE IF event.TSUTC <= 0 THEN "timestamp must be positive"
    ELSE NoError

\* ValidateEvent with < 0 for <= 0
ValidateEvent_negativeOnly(event) ==
    IF event.URL = "" THEN "URL cannot be empty"
    ELSE IF event.Type = "" THEN "Type cannot be empty"
    ELSE IF ~MapLookup(validEventTypes, event.Type) THEN "invalid event type: " \o event.Type
    ELSE IF event.TSUTC < 0 THEN "timestamp must be positive"
    ELSE NoError

\* ValidateEvent with the type checks moved before the URL check
ValidateEvent_typeFirst(event) ==
    IF event.Type = "" THEN "Type cannot be empty"
    ELSE IF ~MapLookup(validEventTypes, event.Type) THEN "invalid event type: " \o event.Type
    ELSE IF event.URL = "" THEN "URL cannot be empty"
    ELSE IF event.TSUTC <= 0 THEN "timestamp must be positive"
    ELSE NoError

\* a validator that looks the url up in the table
ValidateEvent_readsStore(event) ==
    IF event.URL = "" THEN "URL cannot be empty"
    ELSE IF \E k \in 1..Len(rows) : rows[k].url = event.URL THEN "URL already stored"
    ELSE IF event.Type = "" THEN "Type cannot be empty"
    ELSE IF ~MapLookup(validEventTypes, event.Type) THEN "invalid event type: " \o event.Type
    ELSE IF event.TSUTC <= 0 THEN "timestamp must be positive"
    ELSE NoError

(***************************************************************************)
(* Database.ValidateEvent: four checks in order, the first failing one     *)
(* returns.                                                                *)
(***************************************************************************)
ValidateEvent(event) ==
    IF event.URL = "" THEN "URL cannot be empty"
    ELSE IF event.Type = "" THEN "Type cannot be empty"
    ELSE IF ~MapLookup(validEventTypes, event.Type) THEN "invalid event type: " \o event.Type
    ELSE IF event.TSUTC <= 0 THEN "timestamp must be positive"
    ELSE NoError

(***************************************************************************)
(* The wire form (JSON) of a submission.  A key of a wire event is a       *)
(* sequence: <<>> when the key is absent or null, <<v>> when it holds v.   *)
(***************************************************************************)
WireEvent(ts, iso, url, title, type, data) ==
    [ts_utc |-> ts, ts_iso |-> iso, url |-> url, title |-> title, type |-> type, data |-> data]

\* Scenario B of the spec: navigate, null title, empty data
WireNavigate ==
    WireEvent(<<1234567890>>, <<"2009-02-13T23:31:30Z">>, <<"https://example.com">>,
              <<>>, <<"navigate">>, <<"{}">>)
WireClick ==
    WireEvent(<<1234567891>>, <<"2009-02-13T23:31:31Z">>, <<"https://example.com/page2">>,
              <<"Page 2">>, <<"click">>, <<"{\"x\":100}">>)
\* well-formed, but the url is the empty string
WireEmptyURL ==
    WireEvent(<<1234567890>>, <<"2009-02-13T23:31:30Z">>, <<"">>,
              <<>>, <<"navigate">>, <<"{}">>)
\* the array element null (or {}): every key absent
WireNullElement == WireEvent(<<>>, <<>>, <<>>, <<>>, <<>>, <<>>)

\* well-formed, but the type is not one of the six
WireUnknownType ==
    WireEvent(<<1234567892>>, <<"2009-02-13T23:31:32Z">>, <<"https://example.com/page3">>,
              <<"Page 3">>, <<"hover">>, <<"{}">>)
\* well-formed, but ts_utc is 0
WireZeroTimestamp ==
    WireEvent(<<0>>, <<"1970-01-01T00:00:00Z">>, <<"https://example.com">>,
              <<>>, <<"scroll">>, <<"{\"x\":100}">>)

\* valid, with an empty title and no data key (or "data": null)
WireNoData ==
    WireEvent(<<1234567893>>, <<"2009-02-13T23:31:33Z">>, <<"https://example.com/page4">>,
              <<"">>, <<"focus">>, <<>>)

\* events the validator accepts, and well-formed events it rejects
WireValid == <<WireNavigate, WireClick>>
WireFaulty == {WireEmptyURL, WireNullElement}
\* rejected for their type or timestamp; these come last in their batch
WireFaultyLast == {WireUnknownType, WireZeroTimestamp}

\* the valid batch of n events: WireNavigate, WireClick, WireNavigate, ...
ValidBatch(n) == [k \in 1..n |-> WireValid[((k - 1) % 2) + 1]]

\* a batch with two faulty events: the first has an empty url, the last a
\* zero timestamp
WireTwoFaults ==
    [ValidBatch(MaxBatch) EXCEPT ![MaxBatch] = WireZeroTimestamp, ![1] = WireEmptyURL]

\* the valid batch of each length up to MaxBatch, and the longest one with
\* the event at one position replaced by a faulty one
WireBatches ==
    {ValidBatch(n) : n \in 0..MaxBatch}
    \cup {[ValidBatch(MaxBatch) EXCEPT ![k] = f] : k \in 1..MaxBatch, f \in WireFaulty}
    \cup {[ValidBatch(MaxBatch) EXCEPT ![MaxBatch] = f] : f \in WireFaultyLast}
    \cup {<<WireNoData>>}
    \cup {WireTwoFaults}

\* request bodies: not JSON at all; JSON of the wrong shape ({"events": 5});
\* the literal null; an object without "events"; "events": null; "events": [...]
WireBody(kind, events) == [kind |-> kind, events |-> events]
Bodies ==
    {WireBody(k, <<>>) : k \in {"malformed", "mistyped", "null", "no-events-key", "events-null"}}
    \cup {WireBody("events-array", b) : b \in WireBatches}

(***************************************************************************)
(* encoding/json into models.Event / models.Batch: an absent or null key   *)
(* leaves the Go zero value (0, "", nil pointer, nil map).                 *)
(***************************************************************************)
DecodeData(d) ==
    IF d = <<>> THEN DataNil
    ELSE IF d[1] = "{}" THEN DataEmpty
    ELSE DataObj

DecodeEvent(w) ==
    Event(IF w.ts_utc = <<>> THEN 0 ELSE w.ts_utc[1],
          IF w.ts_iso = <<>> THEN "" ELSE w.ts_iso[1],
          IF w.url = <<>> THEN "" ELSE w.url[1],
          w.title,
          IF w.type = <<>> THEN "" ELSE w.type[1],
          DecodeData(w.data))

\* a decoder that takes JSON of the wrong shape for an empty batch
DecodeBatch_lenient(body) ==
    IF body.kind = "malformed"
    THEN [err |-> TRUE, Events |-> <<>>]
    ELSE [err |-> FALSE,
          Events |-> [k \in 1..Len(body.events) |-> DecodeEvent(body.events[k])]]

\* json.NewDecoder(body).Decode(&batch)
DecodeBatch(body) ==
    IF body.kind \in {"malformed", "mistyped"}
    THEN [err |-> TRUE, Events |-> <<>>]
    ELSE [err |-> FALSE,
          Events |-> [k \in 1..Len(body.events) |-> DecodeEvent(body.events[k])]]

\* json.Marshal(event.Data): the text, or <<>> when the map cannot be encoded
MarshalData(data) ==
    IF data = DataChan THEN <<>>
    ELSE IF data = DataNil THEN <<"null">>
    ELSE IF data = DataEmpty THEN <<"{}">>
    ELSE <<"{\"x\":100}">>

(***************************************************************************)
(* encoding/json from models.Event / models.Batch: every key is written;   *)
(* a nil pointer and a nil map are written as null.                        *)
(***************************************************************************)
\* the wire value of the data key, or "unsupported" when json.Marshal fails
EncodeData(data) ==
    IF data = DataChan THEN "unsupported"
    ELSE IF data = DataNil THEN <<>>
    ELSE IF data = DataEmpty THEN <<"{}">>
    ELSE <<"{\"x\":100}">>

EncodeEvent(event) ==
    WireEvent(<<event.TSUTC>>, <<event.TSISO>>, <<event.URL>>, event.Title, <<event.Type>>,
              EncodeData(event.Data))

\* an encoder that writes a nil title as the empty string
EncodeBatch_titleString(events) ==
    IF \E k \in 1..Len(events) : EncodeData(events[k].Data) = "unsupported"
    THEN [err |-> TRUE, body |-> WireBody("malformed", <<>>)]
    ELSE [err |-> FALSE,
          body |-> WireBody("events-array",
                            [k \in 1..Len(events) |->
                               [EncodeEvent(events[k]) EXCEPT
                                  !.title = IF @ = <<>> THEN <<"">> ELSE @]])]

\* json.Marshal(batch)
EncodeBatch(events) ==
    IF \E k \in 1..Len(events) : EncodeData(events[k].Data) = "unsupported"
    THEN [err |-> TRUE, body |-> WireBody("malformed", <<>>)]
    ELSE [err |-> FALSE,
          body |-> WireBody("events-array",
                            [k \in 1..Len(events) |-> EncodeEvent(events[k])])]

(***************************************************************************)
(* Go callers of Database.InsertEvents (the tests) pass events directly.   *)
(***************************************************************************)
EventChanData ==
    Event(1234567890, "2009-02-13T23:31:30Z", "https://example.com", NilTitle, "input", DataChan)

\* what a Go caller passes: the valid batches, and the longest one with the
\* event at one position replaced by one whose data cannot be marshalled
GoBatches ==
    LET valid(n) == [k \in 1..n |-> DecodeEvent(ValidBatch(n)[k])] IN
    {valid(n) : n \in 0..MaxBatch}
    \cup {[valid(MaxBatch) EXCEPT ![k] = EventChanData] : k \in 1..MaxBatch}

(***************************************************************************)
(* The events table of createTables.  A row carries three history fields:  *)
(* the call that staged it, the position of its event in that call's       *)
(* batch, and the length of that batch.                                    *)
(***************************************************************************)
\* a nil title written as the empty string
Row_titleString(id, event, json, c, k, n) ==
    [id |-> id, ts_utc |-> event.TSUTC, ts_iso |-> event.TSISO, url |-> event.URL,
     title |-> IF event.Title = <<>> THEN <<"">> ELSE event.Title,
     type |-> event.Type, data_json |-> json,
     call |-> c, idx |-> k, of |-> n]

Row(id, event, json, c, k, n) ==
    [id |-> id, ts_utc |-> event.TSUTC, ts_iso |-> event.TSISO, url |-> event.URL,
     title |-> event.Title, type |-> event.Type, data_json |-> json,
     call |-> c, idx |-> k, of |-> n]

\* json_valid(data_json) over the texts json.Marshal produces here
JsonValid(text) == text \in {"null", "{}", "{\"x\":100}"}

\* the NOT NULL and CHECK constraints of the table
createTables(row) ==
    /\ row.type \in {"navigate", "visible_text", "click", "input", "scroll", "focus"}
    /\ JsonValid(row.data_json)

MaxOf(S) == CHOOSE m \in S : \A x \in S : x <= m

\* a rowid that repeats the largest one
NextRowId_noIncrement(visible) ==
    IF visible = <<>> THEN 1
    ELSE MaxOf({visible[k].id : k \in 1..Len(visible)})

\* a rowid taken from the first row of the table instead of the largest
NextRowId_first(visible) ==
    IF visible = <<>> THEN 1
    ELSE visible[1].id + 1

\* INTEGER PRIMARY KEY without AUTOINCREMENT: one more than the largest
\* rowid the writing connection sees in the table
NextRowId(visible) ==
    IF visible = <<>> THEN 1
    ELSE MaxOf({visible[k].id : k \in 1..Len(visible)}) + 1

(***************************************************************************)
(* Initial state, calls and their results.                                 *)
(***************************************************************************)
vars == <<mainPc, dbState, rows, writer, call, pc, i, staged, ops, returned, vEvent, vResult, vRow, vTrip, openErr, schema, BROWSETRACE_ADDRESS, serverAddress>>

NoBody == WireBody("null", <<>>)
\* nothing was executed yet; nothing was encoded yet
NoRow == [err |-> "unset", row |-> <<>>]
NoTrip == [batch |-> <<>>, err |-> "unset", Events |-> <<>>]
Input(kind, method, body, events) ==
    [kind |-> kind, method |-> method, body |-> body, events |-> events]
NoCall == Input("none", "", NoBody, <<>>)

Unset == "unset"

\* what a caller observes when call c returns: the HTTP response (status 0
\* for a Go caller), the error InsertEvents returned, the database/sql calls
\* made on its behalf
Result(c, input, e, st, body, made) ==
    [call |-> c, input |-> input, err |-> e, status |-> st, body |-> body, ops |-> made]
NoReturn == Result(0, NoCall, Unset, 0, "", <<>>)

SysInit ==
    /\ mainPc = "start"
    /\ dbState = "Unopened"
    /\ rows = <<>>
    /\ writer = 0
    /\ call = [c \in Calls |-> NoCall]
    /\ pc = [c \in Calls |-> "new"]
    /\ i = [c \in Calls |-> 1]
    /\ staged = [c \in Calls |-> <<>>]
    /\ ops = [c \in Calls |-> <<>>]
    /\ returned = NoReturn
    /\ openErr = Unset
    /\ schema = <<>>
    /\ serverAddress = Unset

Init ==
    /\ SysInit
    /\ BROWSETRACE_ADDRESS = <<>>
    /\ vEvent = EventChanData
    /\ vResult = Unset
    /\ vRow = NoRow
    /\ vTrip = NoTrip

InFlight(c) == pc[c] \in {"begin", "loop", "commit"}

\* returned shows a result for one state: the step after a call returns
\* only forgets it (Forget), every other step waits for that
Quiet == returned = NoReturn

\* calls are numbered in the order they arrive
Arrives(c) == Quiet /\ pc[c] = "new" /\ \A d \in Calls : d < c => pc[d] # "new"

\* the events InsertEvents was called with
BatchOf(c) == call[c].events

(***************************************************************************)
(* main and Server.Start: open the store, serve, drain on a signal, close. *)
(***************************************************************************)
\* the table and the three indexes createTables asks for, in its order
SchemaObjects == <<"events", "idx_events_ts", "idx_events_type", "idx_events_url">>

\* CREATE TABLE / CREATE INDEX ... IF NOT EXISTS name
CreateIfNotExists(catalog, name) ==
    IF \E k \in 1..Len(catalog) : catalog[k] = name THEN catalog ELSE Append(catalog, name)

\* the catalog after the first n statements of createTables have run
RECURSIVE CreateFirst(_, _)
CreateFirst(catalog, n) ==
    IF n = 0 THEN catalog
    ELSE CreateIfNotExists(CreateFirst(catalog, n - 1), SchemaObjects[n])

\* a schema script without IF NOT EXISTS
createTables_Exec_unguarded(catalog) ==
    IF \E k \in 1..Len(catalog) : catalog[k] = SchemaObjects[1]
    THEN [err |-> "failed to create database tables: table events already exists",
          schema |-> catalog]
    ELSE [err |-> NoError, schema |-> catalog \o SchemaObjects]

\* createTables when the engine fails none of its statements
createTables_Exec(catalog) ==
    [err |-> NoError, schema |-> CreateFirst(catalog, Len(SchemaObjects))]

\* what can go wrong in NewDatabase for reasons outside the program
OpenFailures == {"none", "sql.Open", "createTables"}

\* a NewDatabase that returns the createTables error without db.Close()
NewDatabaseOutcome_keepsHandle(failure, schemaErr) ==
    IF failure = "sql.Open"
    THEN [err |-> "failed to open database: sql: unknown driver", state |-> "Failed"]
    ELSE IF failure = "createTables"
    THEN [err |-> "failed to create database tables: unable to open database file",
          state |-> "Ready"]
    ELSE IF schemaErr # NoError
    THEN [err |-> schemaErr, state |-> "Ready"]
    ELSE [err |-> NoError, state |-> "Ready"]

\* NewDatabase: the error it returns and the state of the handle it leaves;
\* "Failed" is no handle (sql.Open failed) or a handle it closed again
NewDatabaseOutcome(failure, schemaErr) ==
    IF failure = "sql.Open"
    THEN [err |-> "failed to open database: sql: unknown driver", state |-> "Failed"]
    ELSE IF failure = "createTables"
    THEN [err |-> "failed to create database tables: unable to open database file",
          state |-> "Failed"]
    ELSE IF schemaErr # NoError
    THEN [err |-> schemaErr, state |-> "Failed"]
    ELSE [err |-> NoError, state |-> "Ready"]

\* database.NewDatabase: sql.Open and createTables; on failure main calls
\* log.Fatal and the process ends before the server exists.  A createTables
\* that fails may have run some of its statements.
\* os.Getenv: the value of a variable, "" when it is unset
Getenv(variable) == IF variable = <<>> THEN "" ELSE variable[1]

\* the values BROWSETRACE_ADDRESS takes: unset, set to "", set to an address
Environments == {<<>>, <<"">>, <<"0.0.0.0:9000">>}

\* main: the address from the environment, or the default
main_serverAddress(variable) ==
    IF Getenv(variable) = "" THEN "127.0.0.1:8123" ELSE Getenv(variable)

NewDatabase ==
    /\ Quiet
    /\ mainPc = "start"
    /\ \E failure \in OpenFailures :
         LET created == createTables_Exec(schema)
             outcome == NewDatabaseOutcome(failure, created.err)
         IN
         /\ openErr' = outcome.err
         /\ dbState' = outcome.state
         /\ mainPc' = IF outcome.err = NoError THEN "serving" ELSE "exited"
         /\ serverAddress' = IF outcome.err = NoError
                             THEN main_serverAddress(BROWSETRACE_ADDRESS)
                             ELSE serverAddress
         /\ IF failure = "none"
            THEN schema' = created.schema
            ELSE IF failure = "sql.Open"
            THEN schema' = schema
            ELSE \E n \in 0..(Len(SchemaObjects) - 1) : schema' = CreateFirst(schema, n)
    /\ returned' = NoReturn
    /\ UNCHANGED <<rows, writer, call, pc, i, staged, ops, vEvent, vResult, vRow, vTrip, BROWSETRACE_ADDRESS>>

\* the agent is started again on the same database file
Restart ==
    /\ Quiet
    /\ mainPc = "exited"
    /\ \A c \in Calls : ~InFlight(c)
    /\ mainPc' = "start"
    /\ dbState' = "Unopened"
    /\ openErr' = Unset
    /\ serverAddress' = Unset
    /\ returned' = NoReturn
    /\ UNCHANGED <<rows, writer, call, pc, i, staged, ops, vEvent, vResult, vRow, vTrip, schema, BROWSETRACE_ADDRESS>>

\* a server that answers the signal with Server.Close, which cuts the
\* connections of the running handlers
Signal_cancels ==
    /\ Quiet
    /\ mainPc = "serving"
    /\ mainPc' = "draining"
    /\ pc' = [c \in Calls |-> IF call[c].kind = "events" /\ InFlight(c)
                              THEN "killed" ELSE pc[c]]
    /\ returned' = NoReturn
    /\ UNCHANGED <<dbState, rows, writer, call, i, staged, ops, vEvent, vResult, vRow, vTrip, openErr, schema, BROWSETRACE_ADDRESS, serverAddress>>

\* <-shutdownChannel: SIGINT or SIGTERM arrives, Server.Shutdown is called
\* and the listener stops admitting requests
Signal ==
    /\ Quiet
    /\ mainPc = "serving"
    /\ mainPc' = "draining"
    /\ returned' = NoReturn
    /\ UNCHANGED <<dbState, rows, writer, call, pc, i, staged, ops, vEvent, vResult, vRow, vTrip, openErr, schema, BROWSETRACE_ADDRESS, serverAddress>>

HttpInFlight == {c \in Calls : call[c].kind = "events" /\ InFlight(c)}

\* a Shutdown that returns without waiting for the running handlers
Shutdown_noDrain ==
    /\ Quiet
    /\ mainPc = "draining"
    /\ mainPc' = "stopped"
    /\ returned' = NoReturn
    /\ UNCHANGED <<dbState, rows, writer, call, pc, i, staged, ops, vEvent, vResult, vRow, vTrip, openErr, schema, BROWSETRACE_ADDRESS, serverAddress>>

\* Server.Shutdown returns nil once no handler is running; Start returns nil
Shutdown ==
    /\ Quiet
    /\ mainPc = "draining"
    /\ HttpInFlight = {}
    /\ mainPc' = "stopped"
    /\ returned' = NoReturn
    /\ UNCHANGED <<dbState, rows, writer, call, pc, i, staged, ops, vEvent, vResult, vRow, vTrip, openErr, schema, BROWSETRACE_ADDRESS, serverAddress>>

\* Database.Close, deferred by main, runs when Start has returned nil, and
\* main returns: sql.DB.Close closes every connection, which rolls back a
\* transaction a connection still holds, and the process ends with
\* whatever goroutine is still running
Close ==
    /\ Quiet
    /\ mainPc = "stopped"
    /\ dbState' = "Closed"
    /\ mainPc' = "exited"
    /\ pc' = [c \in Calls |-> IF InFlight(c) THEN "killed" ELSE pc[c]]
    /\ call' = [c \in Calls |-> NoCall]
    /\ i' = [c \in Calls |-> 1]
    /\ ops' = [c \in Calls |-> <<>>]
    /\ staged' = [c \in Calls |-> <<>>]
    /\ writer' = 0
    /\ returned' = NoReturn
    /\ UNCHANGED <<rows, vEvent, vResult, vRow, vTrip, openErr, schema, BROWSETRACE_ADDRESS, serverAddress>>

\* a Close that reports a handle that is closed already
CloseResult_strict(state) ==
    IF state = "Closed" THEN "sql: database is closed" ELSE NoError

\* what Database.Close returns: sql.DB.Close returns nil on a closed handle
CloseResult(state) == NoError

\* a Go caller (a test and its cleanup) calls Database.Close on the handle
\* that is closed already
Close_closed ==
    /\ Quiet
    /\ dbState = "Closed"
    /\ returned' = Result(0, Input("Close", "", NoBody, <<>>), CloseResult(dbState), 0, "",
                          <<"Close">>)
    /\ UNCHANGED <<mainPc, dbState, rows, writer, call, pc, i, staged, ops, vEvent, vResult, vRow, vTrip, openErr, schema, BROWSETRACE_ADDRESS, serverAddress>>

\* a Shutdown called with a context that has no deadline
ShutdownTimeout_noDeadline ==
    /\ FALSE
    /\ UNCHANGED vars

\* the process ends without closing the store: what the database file
\* holds once it is opened again.  The engine rolls the journal of an
\* uncommitted transaction back, so the table is the committed one.
Recover_keepsStaged(table, uncommitted) == table \o uncommitted

Recover(table, uncommitted) == table

\* the rows of the transaction that holds the write lock
Uncommitted == IF writer = 0 THEN <<>> ELSE staged[writer]

\* log.Fatal: os.Exit ends the process with every handler still running;
\* deferred calls do not run.  A call that is cut keeps the index its
\* loop had reached.
Fatal ==
    /\ mainPc' = "exited"
    /\ dbState' = "Abandoned"
    /\ pc' = [c \in Calls |-> IF InFlight(c) THEN "killed" ELSE pc[c]]
    /\ call' = [c \in Calls |-> NoCall]
    /\ i' = [c \in Calls |-> IF InFlight(c) THEN i[c] ELSE 1]
    /\ ops' = [c \in Calls |-> <<>>]
    /\ staged' = [c \in Calls |-> <<>>]
    /\ writer' = 0
    /\ rows' = Recover(rows, Uncommitted)
    /\ returned' = NoReturn

\* the 30 s context of Server.Shutdown expires with a handler still
\* running: log.Fatal("Server forced to shutdown:", err)
ShutdownTimeout ==
    /\ Quiet
    /\ mainPc = "draining"
    /\ HttpInFlight # {}
    /\ Fatal
    /\ UNCHANGED <<vEvent, vResult, vRow, vTrip, openErr, schema, BROWSETRACE_ADDRESS, serverAddress>>

\* ListenAndServe returns an error other than ErrServerClosed in its
\* goroutine: log.Fatal("Server failed to start:", err)
ListenAndServe_fails ==
    /\ Quiet
    /\ mainPc = "serving"
    /\ Fatal
    /\ UNCHANGED <<vEvent, vResult, vRow, vTrip, openErr, schema, BROWSETRACE_ADDRESS, serverAddress>>

(***************************************************************************)
(* Server.handleHealthz and Server.handleEvents.                           *)
(***************************************************************************)
Methods == {"POST", "GET"}

\* the bodies a request of a method other than POST is sent with
OtherMethodBodies ==
    {WireBody("malformed", <<>>), WireBody("events-array", <<>>),
     WireBody("events-array", ValidBatch(1))}

\* call c returns to its caller and its goroutine ends
Leave(c, result) ==
    /\ returned' = result
    /\ pc' = [pc EXCEPT ![c] = "gone"]
    /\ call' = [call EXCEPT ![c] = NoCall]
    /\ ops' = [ops EXCEPT ![c] = <<>>]
    /\ i' = [i EXCEPT ![c] = 1]

\* a health check that asks the store and fails while it is locked
handleHealthz_pingsStore(c) ==
    /\ mainPc = "serving"
    /\ Arrives(c)
    /\ Leave(c, IF writer = 0
                THEN Result(c, Input("healthz", "GET", NoBody, <<>>), Unset, 200, "ok", <<>>)
                ELSE Result(c, Input("healthz", "GET", NoBody, <<>>), Unset, 503,
                            "database is locked\n", <<"Ping">>))
    /\ UNCHANGED <<mainPc, dbState, rows, writer, staged, vEvent, vResult, vRow, vTrip, openErr, schema, BROWSETRACE_ADDRESS, serverAddress>>

\* Server.handleHealthz: writes "ok" with the implicit status 200
handleHealthz(c) ==
    /\ mainPc = "serving"
    /\ Arrives(c)
    /\ Leave(c, Result(c, Input("healthz", "GET", NoBody, <<>>), Unset, 200, "ok", <<>>))
    /\ UNCHANGED <<mainPc, dbState, rows, writer, staged, vEvent, vResult, vRow, vTrip, openErr, schema, BROWSETRACE_ADDRESS, serverAddress>>

\* handleEvents decoding the body before it looks at the method
handleEventsChecks_decodeFirst(method, body) ==
    LET decoded == DecodeBatch(body) IN
    IF decoded.err
    THEN [forward |-> FALSE, status |-> 400, body |-> "Invalid JSON format\n", events |-> <<>>]
    ELSE IF method # "POST"
    THEN [forward |-> FALSE, status |-> 405, body |-> "POST only\n", events |-> <<>>]
    ELSE IF Len(decoded.Events) = 0
    THEN [forward |-> FALSE, status |-> 204, body |-> "", events |-> decoded.Events]
    ELSE [forward |-> TRUE, status |-> 0, body |-> "", events |-> decoded.Events]

\* handleEvents without the len(batch.Events) == 0 shortcut
handleEventsChecks_noEmptyCheck(method, body) ==
    IF method # "POST"
    THEN [forward |-> FALSE, status |-> 405, body |-> "POST only\n", events |-> <<>>]
    ELSE LET decoded == DecodeBatch(body) IN
         IF decoded.err
         THEN [forward |-> FALSE, status |-> 400, body |-> "Invalid JSON format\n",
               events |-> <<>>]
         ELSE [forward |-> TRUE, status |-> 0, body |-> "", events |-> decoded.Events]

\* handleEvents up to its call of InsertEvents: the method check, the
\* decode, the empty batch.  forward says whether InsertEvents is called.
\* a handler that validates the decoded events itself and answers 400
handleEventsChecks_validates(method, body) ==
    IF method # "POST"
    THEN [forward |-> FALSE, status |-> 405, body |-> "POST only\n", events |-> <<>>]
    ELSE LET decoded == DecodeBatch(body) IN
         IF decoded.err
         THEN [forward |-> FALSE, status |-> 400, body |-> "Invalid JSON format\n",
               events |-> <<>>]
         ELSE IF Len(decoded.Events) = 0
         THEN [forward |-> FALSE, status |-> 204, body |-> "", events |-> decoded.Events]
         ELSE IF \E k \in 1..Len(decoded.Events) : ValidateEvent(decoded.Events[k]) # NoError
         THEN [forward |-> FALSE, status |-> 400, body |-> "Invalid event\n",
               events |-> decoded.Events]
         ELSE [forward |-> TRUE, status |-> 0, body |-> "", events |-> decoded.Events]

handleEventsChecks(method, body) ==
    IF method # "POST"
    THEN [forward |-> FALSE, status |-> 405, body |-> "POST only\n", events |-> <<>>]
    ELSE LET decoded == DecodeBatch(body) IN
         IF decoded.err
         THEN [forward |-> FALSE, status |-> 400, body |-> "Invalid JSON format\n",
               events |-> <<>>]
         ELSE IF Len(decoded.Events) = 0
         THEN [forward |-> FALSE, status |-> 204, body |-> "", events |-> decoded.Events]
         ELSE [forward |-> TRUE, status |-> 0, body |-> "", events |-> decoded.Events]

handleEvents(c) ==
    /\ mainPc = "serving"
    /\ Arrives(c)
    /\ \E method \in Methods, body \in Bodies :
         /\ method # "POST" => body \in OtherMethodBodies
         /\ LET checks == handleEventsChecks(method, body)
                input == Input("events", method, body, checks.events)
            IN
            IF checks.forward
            THEN /\ call' = [call EXCEPT ![c] = input]
                 /\ pc' = [pc EXCEPT ![c] = "begin"]
                 /\ returned' = NoReturn
                 /\ UNCHANGED <<i, ops>>
            ELSE Leave(c, Result(c, input, Unset, checks.status, checks.body, <<>>))
    /\ UNCHANGED <<mainPc, dbState, rows, writer, staged, vEvent, vResult, vRow, vTrip, openErr, schema, BROWSETRACE_ADDRESS, serverAddress>>

\* a Go caller (a test) calls Database.InsertEvents on the handle
InsertEvents(c) ==
    /\ dbState \in {"Ready", "Closed"}
    /\ Arrives(c)
    /\ \E events \in GoBatches :
         call' = [call EXCEPT ![c] = Input("InsertEvents", "", NoBody, events)]
    /\ pc' = [pc EXCEPT ![c] = "begin"]
    /\ returned' = NoReturn
    /\ UNCHANGED <<mainPc, dbState, rows, writer, i, staged, ops, vEvent, vResult, vRow, vTrip, openErr, schema, BROWSETRACE_ADDRESS, serverAddress>>

(***************************************************************************)
(* Database.InsertEvents, one action per database/sql call, and the tail   *)
(* of handleEvents that turns its result into the response.                *)
(***************************************************************************)
\* a handler that drops the error of InsertEvents
Respond_always204(e) == [status |-> 204, body |-> ""]

\* a handler that passes the error of InsertEvents on to the caller
Respond_leaksError(e) ==
    IF e # NoError
    THEN [status |-> 500, body |-> e \o "\n"]
    ELSE [status |-> 204, body |-> ""]

\* handleEvents after InsertEvents returned e: 500 with a fixed text, or 204
Respond(e) ==
    IF e # NoError
    THEN [status |-> 500, body |-> "Failed to store events\n"]
    ELSE [status |-> 204, body |-> ""]

\* InsertEvents returns e, having made the database/sql calls made
Return(c, e, made) ==
    LET response == IF call[c].kind = "events" THEN Respond(e)
                    ELSE [status |-> 0, body |-> ""]
    IN Leave(c, Result(c, call[c], e, response.status, response.body, made))

\* the query of the data source name NewDatabase passes to sql.Open
DSNQuery ==
    <<[key |-> "_journal_mode", value |-> "WAL"],
      [key |-> "_busy_timeout", value |-> "5000"]>>

\* modernc.org/sqlite, the driver registered as "sqlite": a pragma is set
\* only by a key _pragma, as in _pragma=busy_timeout(5000); the keys it does
\* not know are ignored
DriverPragmas(query) ==
    [name \in {"journal_mode", "busy_timeout"} |->
        \E k \in 1..Len(query) :
            /\ query[k].key = "_pragma"
            /\ query[k].value \in {name \o "(WAL)", name \o "(5000)"}]

\* the journal mode and the lock wait in effect on the connections
JournalMode == IF DriverPragmas(DSNQuery)["journal_mode"] THEN "wal" ELSE "delete"
BusyTimeoutSet == DriverPragmas(DSNQuery)["busy_timeout"]

\* statement.Exec finds the write lock held by another transaction: with a
\* busy timeout the engine's busy handler retries until the time is up,
\* without one SQLITE_BUSY is returned at once
ExecBusy == IF BusyTimeoutSet THEN <<"Exec", "busy_handler", "Rollback">>
            ELSE <<"Exec", "Rollback">>

\* a Commit where the Rollback belongs
Rollback_commits(c) ==
    /\ rows' = rows \o staged[c]
    /\ staged' = [staged EXCEPT ![c] = <<>>]
    /\ writer' = IF writer = c THEN 0 ELSE writer

\* transaction.Rollback(): the staged rows are discarded, the lock released
Rollback(c) ==
    /\ staged' = [staged EXCEPT ![c] = <<>>]
    /\ writer' = IF writer = c THEN 0 ELSE writer
    /\ rows' = rows

\* d.db.Begin() and transaction.Prepare(...)
InsertEvents_Begin(c) ==
    /\ Quiet
    /\ pc[c] = "begin"
    /\ \/ /\ Return(c, "failed to begin transaction: " \o
                       (IF dbState = "Ready" THEN "database is locked"
                                             ELSE "sql: database is closed"),
                    <<"Begin">>)
          /\ UNCHANGED <<rows, staged, writer>>
       \/ /\ dbState = "Ready"
          /\ Rollback(c)
          /\ Return(c, "failed to prepare statement: disk I/O error",
                    <<"Begin", "Prepare", "Rollback">>)
       \/ /\ dbState = "Ready"
          /\ ops' = [ops EXCEPT ![c] = <<"Begin", "Prepare">>]
          /\ i' = [i EXCEPT ![c] = 1]
          /\ pc' = [pc EXCEPT ![c] = IF BatchOf(c) = <<>> THEN "commit" ELSE "loop"]
          /\ returned' = NoReturn
          /\ UNCHANGED <<rows, staged, writer, call>>
    /\ UNCHANGED <<mainPc, dbState, vEvent, vResult, vRow, vTrip, openErr, schema, BROWSETRACE_ADDRESS, serverAddress>>

\* an INSERT OR REPLACE on a fixed rowid: the oldest row is overwritten
Stage_replace(c, row) ==
    /\ staged' = [staged EXCEPT ![c] = Append(@, row)]
    /\ writer' = c
    /\ rows' = IF rows = <<>> THEN rows ELSE Tail(rows)

\* an INSERT that takes no write lock
Stage_noLock(c, row) ==
    /\ staged' = [staged EXCEPT ![c] = Append(@, row)]
    /\ writer' = writer
    /\ rows' = rows

\* an INSERT OR IGNORE under a UNIQUE constraint over the event's fields
Stage_dedup(c, row) ==
    LET same(r) == /\ r.ts_utc = row.ts_utc /\ r.ts_iso = row.ts_iso /\ r.url = row.url
                   /\ r.title = row.title /\ r.type = row.type
                   /\ r.data_json = row.data_json
        visible == rows \o staged[c]
    IN
    /\ staged' = IF \E k \in 1..Len(visible) : same(visible[k])
                 THEN staged
                 ELSE [staged EXCEPT ![c] = Append(@, row)]
    /\ writer' = c
    /\ rows' = rows

\* an Exec on the handle instead of the transaction: the row is committed
\* at once
Stage_autocommit(c, row) ==
    /\ rows' = Append(rows, row)
    /\ staged' = staged
    /\ writer' = writer

\* statement.Exec succeeded: the row is written inside the transaction,
\* which holds the write lock from now on
Stage(c, row) ==
    /\ staged' = [staged EXCEPT ![c] = Append(@, row)]
    /\ writer' = c
    /\ rows' = rows

\* a loop that validates every remaining event before it stages the next
\* one, and reports the last failure it found
InsertEvents_Event_validatesAhead(c) ==
    /\ Quiet
    /\ pc[c] = "loop"
    /\ LET event == BatchOf(c)[i[c]]
           bad == {k \in i[c]..Len(BatchOf(c)) : ValidateEvent(BatchOf(c)[k]) # NoError}
           invalid == IF bad = {} THEN NoError ELSE ValidateEvent(BatchOf(c)[MaxOf(bad)])
           jsonData == MarshalData(event.Data)
       IN
       IF invalid # NoError
       THEN /\ Rollback(c)
            /\ Return(c, "invalid event: " \o invalid, ops[c] \o <<"Rollback">>)
       ELSE IF jsonData = <<>>
       THEN /\ Rollback(c)
            /\ Return(c, "failed to marshal event data: json: unsupported type",
                      ops[c] \o <<"Rollback">>)
       ELSE LET row == Row(NextRowId(rows \o staged[c]), event, jsonData[1], c, i[c],
                           Len(BatchOf(c))) IN
            \/ /\ Rollback(c)
               /\ IF writer \in {0, c}
                  THEN Return(c, "failed to execute statement: disk I/O error",
                              ops[c] \o <<"Exec", "Rollback">>)
                  ELSE Return(c, "failed to execute statement: database is locked",
                              ops[c] \o ExecBusy)
            \/ /\ writer \in {0, c}
               /\ IF createTables(row)
                  THEN /\ Stage(c, row)
                       /\ ops' = [ops EXCEPT ![c] = Append(@, "Exec")]
                       /\ i' = [i EXCEPT ![c] = @ + 1]
                       /\ pc' = [pc EXCEPT ![c] =
                                    IF i[c] = Len(BatchOf(c)) THEN "commit" ELSE "loop"]
                       /\ returned' = NoReturn
                       /\ UNCHANGED call
                  ELSE /\ Rollback(c)
                       /\ Return(c, "failed to execute statement: constraint failed",
                                 ops[c] \o <<"Exec", "Rollback">>)
    /\ UNCHANGED <<mainPc, dbState, vEvent, vResult, vRow, vTrip, openErr, schema, BROWSETRACE_ADDRESS, serverAddress>>

\* one iteration of the range loop: ValidateEvent, json.Marshal,
\* statement.Exec.  The first INSERT of a transaction takes the write lock;
\* while another transaction holds it the Exec waits and, when the wait
\* runs out, fails.
InsertEvents_Event(c) ==
    /\ Quiet
    /\ pc[c] = "loop"
    /\ LET event == BatchOf(c)[i[c]]
           invalid == ValidateEvent(event)
           jsonData == MarshalData(event.Data)
       IN
       IF invalid # NoError
       THEN /\ Rollback(c)
            /\ Return(c, "invalid event: " \o invalid, ops[c] \o <<"Rollback">>)
       ELSE IF jsonData = <<>>
       THEN /\ Rollback(c)
            /\ Return(c, "failed to marshal event data: json: unsupported type",
                      ops[c] \o <<"Rollback">>)
       ELSE LET row == Row(NextRowId(rows \o staged[c]), event, jsonData[1], c, i[c],
                           Len(BatchOf(c))) IN
            \/ /\ Rollback(c)
               /\ IF writer \in {0, c}
                  THEN Return(c, "failed to execute statement: disk I/O error",
                              ops[c] \o <<"Exec", "Rollback">>)
                  ELSE Return(c, "failed to execute statement: database is locked",
                              ops[c] \o ExecBusy)
            \/ /\ writer \in {0, c}
               /\ IF createTables(row)
                  THEN /\ Stage(c, row)
                       /\ ops' = [ops EXCEPT ![c] = Append(@, "Exec")]
                       /\ i' = [i EXCEPT ![c] = @ + 1]
                       /\ pc' = [pc EXCEPT ![c] =
                                    IF i[c] = Len(BatchOf(c)) THEN "commit" ELSE "loop"]
                       /\ returned' = NoReturn
                       /\ UNCHANGED call
                  ELSE /\ Rollback(c)
                       /\ Return(c, "failed to execute statement: constraint failed",
                                 ops[c] \o <<"Exec", "Rollback">>)
    /\ UNCHANGED <<mainPc, dbState, vEvent, vResult, vRow, vTrip, openErr, schema, BROWSETRACE_ADDRESS, serverAddress>>

\* transaction.Commit().  When it fails the code returns without a
\* Rollback: the engine has either undone the transaction itself, or left
\* it open on the connection (SQLITE_BUSY), still holding what it held.
InsertEvents_Commit(c) ==
    /\ Quiet
    /\ pc[c] = "commit"
    /\ \/ /\ rows' = rows \o staged[c]
          /\ staged' = [staged EXCEPT ![c] = <<>>]
          /\ writer' = IF writer = c THEN 0 ELSE writer
          /\ Return(c, NoError, Append(ops[c], "Commit"))
       \/ /\ staged' = [staged EXCEPT ![c] = <<>>]
          /\ writer' = IF writer = c THEN 0 ELSE writer
          /\ rows' = rows
          /\ Return(c, "failed to commit transaction: disk I/O error",
                    Append(ops[c], "Commit"))
       \/ /\ Return(c, "failed to commit transaction: database is locked",
                    Append(ops[c], "Commit"))
          /\ UNCHANGED <<rows, staged, writer>>
    /\ UNCHANGED <<mainPc, dbState, vEvent, vResult, vRow, vTrip, openErr, schema, BROWSETRACE_ADDRESS, serverAddress>>

(***************************************************************************)
(* The system.                                                             *)
(***************************************************************************)
Forget ==
    /\ returned # NoReturn
    /\ returned' = NoReturn
    /\ UNCHANGED <<mainPc, dbState, rows, writer, call, pc, i, staged, ops, vEvent, vResult, vRow, vTrip, openErr, schema, BROWSETRACE_ADDRESS, serverAddress>>

Next ==
    \/ Forget
    \/ NewDatabase
    \/ Signal
    \/ Shutdown
    \/ Close
    \/ ShutdownTimeout
    \/ ListenAndServe_fails
    \/ Restart
    \/ Close_closed
    \/ \E c \in Calls : handleHealthz(c)
    \/ \E c \in Calls : handleEvents(c)
    \/ \E c \in Calls : InsertEvents(c)
    \/ \E c \in Calls : InsertEvents_Begin(c)
    \/ \E c \in Calls : InsertEvents_Event(c)
    \/ \E c \in Calls : InsertEvents_Commit(c)

Spec == Init /\ [][Next]_vars

\* The main goroutine is always scheduled: Shutdown returns once the server
\* is idle, the timer of its 30 s context fires, and main runs its deferred
\* Close and returns.  A handler is promised no progress: a request may hang.
SpecLive ==
    /\ Spec
    /\ WF_vars(Forget)
    /\ WF_vars(Shutdown)
    /\ WF_vars(ShutdownTimeout)
    /\ WF_vars(Close)

(***************************************************************************)
(* Database.ValidateEvent on its own, over every combination of field      *)
(* values.                                                                 *)
(***************************************************************************)
EventDomain ==
    {Event(ts, iso, url, title, type, data) :
        ts \in {-1, 0, 1, 1234567890},
        iso \in {"", "2009-02-13T23:31:30Z"},
        url \in {"", "https://example.com"},
        title \in {NilTitle, <<"">>, <<"Page 2">>},
        type \in {"", "hover", "Navigate", "navigate", "visible_text", "click", "input",
                  "scroll", "focus"},
        data \in {DataNil, DataEmpty, DataObj, DataChan}}

InitValidate ==
    /\ SysInit
    /\ BROWSETRACE_ADDRESS \in Environments
    /\ vEvent \in EventDomain
    /\ vResult = Unset
    /\ vRow = NoRow
    /\ vTrip = NoTrip

ValidateEvent_call ==
    /\ vResult = Unset
    /\ vResult' = ValidateEvent(vEvent)
    /\ UNCHANGED <<mainPc, dbState, rows, writer, call, pc, i, staged, ops, returned, vEvent, vRow, vTrip, openErr, schema, BROWSETRACE_ADDRESS, serverAddress>>

\* statement.Exec with the fields of an event: the row, when the NOT NULL
\* and CHECK constraints of the table accept it
Exec(event, text) ==
    LET row == Row(1, event, text, 0, 1, 1) IN
    IF createTables(row) THEN [err |-> NoError, row |-> <<row>>]
    ELSE [err |-> "constraint failed", row |-> <<>>]

\* the INSERT of InsertEvents alone, for a caller that skipped ValidateEvent
Exec_call ==
    /\ vRow = NoRow
    /\ MarshalData(vEvent.Data) # <<>>
    /\ vRow' = Exec(vEvent, MarshalData(vEvent.Data)[1])
    /\ UNCHANGED <<mainPc, dbState, rows, writer, call, pc, i, staged, ops, returned, vEvent, vResult, vTrip, openErr, schema, BROWSETRACE_ADDRESS, serverAddress>>

\* json.Marshal of a Batch and json.Unmarshal of the text, as the tests of
\* the models do: the batch holds the event at its odd positions
RoundTrip_call ==
    /\ vTrip = NoTrip
    /\ \E n \in 0..MaxBatch :
         LET batch == [k \in 1..n |-> IF k % 2 = 1 THEN vEvent ELSE DecodeEvent(WireClick)]
             encoded == EncodeBatch(batch)
             decoded == DecodeBatch(encoded.body)
         IN vTrip' = IF encoded.err \/ decoded.err
                     THEN [batch |-> batch, err |-> "json: unsupported type", Events |-> <<>>]
                     ELSE [batch |-> batch, err |-> NoError, Events |-> decoded.Events]
    /\ UNCHANGED <<mainPc, dbState, rows, writer, call, pc, i, staged, ops, returned, vEvent, vResult, vRow, openErr, schema, BROWSETRACE_ADDRESS, serverAddress>>

\* the address selection of main alone, for every value of the variable
main_address ==
    /\ serverAddress = Unset
    /\ serverAddress' = main_serverAddress(BROWSETRACE_ADDRESS)
    /\ UNCHANGED <<mainPc, dbState, rows, writer, call, pc, i, staged, ops, returned, vEvent, vResult, vRow, vTrip, openErr, schema, BROWSETRACE_ADDRESS>>

NextValidate ==
    \/ ValidateEvent_call
    \/ Exec_call
    \/ RoundTrip_call
    \/ main_address

SpecValidate == InitValidate /\ [][NextValidate]_vars

(***************************************************************************)
(* Properties.                                                             *)
(***************************************************************************)
\* the six event types of the data model
EventTypes == {"navigate", "visible_text", "click", "input", "scroll", "focus"}

\* the committed rows a call has written, in table order
RowsOf(c) == SelectSeq(rows, LAMBDA r : r.call = c)

Failed == returned.err \notin {Unset, NoError}
Succeeded == returned.err = NoError

\* the text the data_json column holds for a data mapping
JsonOf(data) ==
    IF data = DataEmpty THEN "{}"
    ELSE IF data = DataObj THEN "{\"x\":100}"
    ELSE "null"

EventsRequest == returned.input.kind = "events"
NoStoreAccess ==
    /\ returned.ops = <<>>
    /\ RowsOf(returned.call) = <<>>
    /\ staged[returned.call] = <<>>

\* C1: when InsertEvents returns an error (validation, marshal, statement
\* or commit failure), no row of its batch is among the persisted rows.
C1_AtomicOnFailure ==
    Failed => RowsOf(returned.call) = <<>>

\* a batch rejected at its second event, after the first was staged, while
\* the table already holds rows of another batch
C1_Witness ==
    /\ returned.err = "invalid event: URL cannot be empty"
    /\ returned.ops = <<"Begin", "Prepare", "Exec", "Rollback">>
    /\ rows # <<>>

\* C2: when InsertEvents returns without error the store holds exactly one
\* row per event of the batch, with the events' field values, in batch
\* order, with strictly increasing identifiers.
C2_SuccessPostcondition ==
    Succeeded =>
        LET mine == RowsOf(returned.call)
            events == returned.input.events
        IN /\ Len(mine) = Len(events)
           /\ \A k \in 1..Len(mine) :
                /\ mine[k].ts_utc = events[k].TSUTC
                /\ mine[k].ts_iso = events[k].TSISO
                /\ mine[k].url = events[k].URL
                /\ mine[k].title = events[k].Title
                /\ mine[k].type = events[k].Type
                /\ mine[k].data_json = JsonOf(events[k].Data)
                /\ k > 1 => mine[k].id > mine[k - 1].id

\* a full-length batch committed after another batch
C2_Witness ==
    /\ Succeeded
    /\ Len(returned.input.events) = MaxBatch
    /\ Len(rows) > MaxBatch

\* C3: every persisted row has a non-empty url, one of the six types and a
\* ts_utc above 0.
C3_PersistedRowsValid ==
    \A k \in 1..Len(rows) :
        /\ rows[k].url # ""
        /\ rows[k].type \in EventTypes
        /\ rows[k].ts_utc > 0

\* rows were committed, another call left no row, and the store was closed
C3_Witness ==
    /\ rows # <<>>
    /\ dbState = "Closed"
    /\ \E c \in Calls : pc[c] = "gone" /\ RowsOf(c) = <<>>

\* C4: in every state the committed rows are a union of whole batches: of
\* a batch either every event is committed or none.
C4_NoPartialBatch ==
    \A k \in 1..Len(rows) :
        {rows[j].idx : j \in {j \in 1..Len(rows) : rows[j].call = rows[k].call}}
            = 1..rows[k].of

\* a transaction has staged the first event of a longer batch while the
\* table holds the rows of another batch
C4_Witness ==
    /\ rows # <<>>
    /\ \E c \in Calls :
         /\ pc[c] = "loop"
         /\ Len(staged[c]) = 1
         /\ Len(BatchOf(c)) > 1

\* C5: ValidateEvent fails exactly when the url is empty, the type is empty
\* or outside the six types, or ts_utc is 0 or less.
C5_ValidateIff ==
    vResult # Unset =>
        ((vResult # NoError) <=>
            \/ vEvent.URL = ""
            \/ vEvent.Type = ""
            \/ vEvent.Type \notin EventTypes
            \/ vEvent.TSUTC <= 0)

\* the boundary: an event valid but for ts_utc = 0 is rejected
C5_Witness ==
    /\ vResult \notin {Unset, NoError}
    /\ vEvent.URL # ""
    /\ vEvent.Type \in EventTypes
    /\ vEvent.TSUTC = 0

\* C6: the error ValidateEvent reports is that of the first failing check
\* in the order url, type non-empty, type allowed, timestamp.
C6_FirstFailingCheck ==
    vResult # Unset =>
        /\ vEvent.URL = "" => vResult = "URL cannot be empty"
        /\ (vEvent.URL # "" /\ vEvent.Type = "") => vResult = "Type cannot be empty"
        /\ (vEvent.URL # "" /\ vEvent.Type # "" /\ vEvent.Type \notin EventTypes)
               => vResult = "invalid event type: " \o vEvent.Type
        /\ (vEvent.URL # "" /\ vEvent.Type \in EventTypes /\ vEvent.TSUTC <= 0)
               => vResult = "timestamp must be positive"

\* an event violating every constraint is reported with the url error
C6_Witness ==
    /\ vEvent.URL = ""
    /\ vEvent.Type = ""
    /\ vEvent.TSUTC = 0
    /\ vResult = "URL cannot be empty"

\* C7: a request to /events with a method other than POST gets 405 and
\* makes no store access, whatever its body.
C7_MethodNotAllowed ==
    (EventsRequest /\ returned.input.method # "POST") =>
        /\ returned.status = 405
        /\ NoStoreAccess

\* a GET carrying a valid non-empty batch
C7_Witness ==
    /\ EventsRequest
    /\ returned.input.method = "GET"
    /\ returned.input.body = WireBody("events-array", ValidBatch(1))
    /\ returned.status = 405

\* C8: a POST whose body does not decode as a Batch gets 400 and makes no
\* store access.
C8_BadRequest ==
    (/\ EventsRequest
     /\ returned.input.method = "POST"
     /\ returned.input.body.kind \in {"malformed", "mistyped"}) =>
        /\ returned.status = 400
        /\ NoStoreAccess

\* a POST of JSON of the wrong shape, while the table holds rows
C8_Witness ==
    /\ EventsRequest
    /\ returned.input.method = "POST"
    /\ returned.input.body.kind = "mistyped"
    /\ returned.status = 400
    /\ rows # <<>>

\* C9: a POST whose batch is empty (events [], null or absent) gets 204 and
\* makes no store access.
C9_EmptyBatch ==
    (/\ EventsRequest
     /\ returned.input.method = "POST"
     /\ \/ returned.input.body.kind \in {"events-null", "no-events-key"}
        \/ returned.input.body = WireBody("events-array", <<>>)) =>
        /\ returned.status = 204
        /\ NoStoreAccess

\* a POST of {"events": null}
C9_Witness ==
    /\ EventsRequest
    /\ returned.input.method = "POST"
    /\ returned.input.body.kind = "events-null"
    /\ returned.status = 204

NonEmptyPost ==
    /\ EventsRequest
    /\ returned.input.method = "POST"
    /\ returned.input.body.kind = "events-array"
    /\ returned.input.body.events # <<>>

ValidationErrors ==
    {"invalid event: URL cannot be empty",
     "invalid event: Type cannot be empty",
     "invalid event: invalid event type: hover",
     "invalid event: timestamp must be positive"}
StorageErrors ==
    {"failed to begin transaction: database is locked",
     "failed to prepare statement: disk I/O error",
     "failed to execute statement: disk I/O error",
     "failed to execute statement: database is locked",
     "failed to commit transaction: disk I/O error",
     "failed to commit transaction: database is locked"}

\* a wire event that is well-formed JSON but breaks a constraint of the
\* data model
SemanticallyInvalid(w) ==
    \/ w.url \in {<<>>, <<"">>}
    \/ w.type = <<>>
    \/ w.type[1] \notin EventTypes
    \/ w.ts_utc = <<>>
    \/ w.ts_utc[1] <= 0

HealthzReturns == returned.input.kind = "healthz"

\* C13: the health check answers 200 "ok" in every state of the store,
\* makes no database/sql call, and changes neither the table nor any
\* transaction nor the handle.
C13_HealthzFrame ==
    /\ [](HealthzReturns =>
            /\ returned.status = 200
            /\ returned.body = "ok"
            /\ NoStoreAccess)
    /\ [][HealthzReturns' =>
            /\ rows' = rows
            /\ staged' = staged
            /\ writer' = writer
            /\ dbState' = dbState]_vars

\* the health check answers while another request holds the write lock
\* with rows staged
C13_Witness ==
    /\ HealthzReturns
    /\ returned.status = 200
    /\ writer # 0
    /\ staged[writer] # <<>>

\* call c is a request the server admits in this step
Admitted(c) ==
    /\ pc[c] = "new"
    /\ pc'[c] # "new"
    /\ \/ call'[c].kind = "events"
       \/ returned'.call = c /\ returned'.input.kind \in {"events", "healthz"}

\* C14: the store is open before the first request is admitted and stays
\* open while the server serves, drains and stops; no handler is inside
\* InsertEvents unless the store is Ready and Shutdown has not returned,
\* and none gets the error of a closed handle; the store is closed only by
\* the step that follows the return of Shutdown, which ends main, so it is
\* closed at most once.
C14_LifecycleOrder ==
    /\ [](/\ mainPc \in {"serving", "draining", "stopped"} => dbState = "Ready"
          /\ HttpInFlight # {} => (dbState = "Ready" /\ mainPc \in {"serving", "draining"})
          /\ dbState = "Closed" => mainPc = "exited"
          /\ returned.input.kind = "events" =>
                returned.err # "failed to begin transaction: sql: database is closed")
    /\ [][/\ \A c \in Calls : Admitted(c) => dbState = "Ready"
          /\ (dbState # "Closed" /\ dbState' = "Closed") =>
                (mainPc = "stopped" /\ mainPc' = "exited" /\ HttpInFlight = {})]_vars

\* the store was closed after requests were served and rows committed
C14_Witness ==
    /\ dbState = "Closed"
    /\ mainPc = "exited"
    /\ rows # <<>>
    /\ \A c \in Calls : pc[c] = "gone"

C16_ShutdownTerminates ==
    /\ (mainPc = "draining") ~> (mainPc = "exited")
    /\ [][(mainPc = "draining" /\ mainPc' = "exited") =>
            /\ HttpInFlight # {}
            /\ \A c \in HttpInFlight : pc'[c] = "killed"
            /\ dbState' = "Abandoned"]_vars

\* the grace period expired on a running request and the process is gone
C16_Witness ==
    /\ mainPc = "exited"
    /\ dbState = "Abandoned"
    /\ \E c \in Calls : pc[c] = "killed"

\* C17: once the signal was received, the process does not exit before
\* Database.Close has run, on the path where the drain finished and on the
\* path where the grace period expired.
C17_ClosedBeforeExit ==
    (mainPc = "exited" /\ dbState # "Failed") => dbState = "Closed"

OpenFailed == openErr \notin {Unset, NoError}

\* C18: when NewDatabase returns an error, main has no store and the
\* handle, if one was opened, is released again; the process is over and
\* no request is admitted and no InsertEvents started while that holds.
C18_OpenFailureFatal ==
    /\ [](OpenFailed =>
            /\ dbState = "Failed"
            /\ mainPc = "exited"
            /\ \A c \in Calls : ~InFlight(c)
            /\ returned = NoReturn)
    /\ [][OpenFailed' => (\A c \in Calls : ~Admitted(c) /\ pc'[c] = pc[c])]_vars

\* createTables failed after the table was created and before the last
\* index was
C18_Witness ==
    /\ openErr = "failed to create database tables: unable to open database file"
    /\ dbState = "Failed"
    /\ mainPc = "exited"
    /\ schema = <<"events", "idx_events_ts">>

CloseReturns == returned.input.kind = "Close"

\* C19: a Close on the closed store returns nil and changes nothing; an
\* InsertEvents on the closed store returns an error and no row changes;
\* the closed handle never becomes Ready again, short of a new process
\* that opens a new one.
C19_ClosedTerminal ==
    /\ [](/\ CloseReturns => (returned.err = NoError /\ dbState = "Closed")
          /\ (dbState = "Closed" /\ returned.input.kind = "InsertEvents") =>
                /\ returned.err = "failed to begin transaction: sql: database is closed"
                /\ returned.ops = <<"Begin">>)
    /\ [][/\ CloseReturns' =>
                /\ dbState' = dbState
                /\ rows' = rows
                /\ staged' = staged
                /\ writer' = writer
          /\ dbState = "Closed" =>
                /\ rows' = rows
                /\ dbState' \in {"Closed", "Unopened"}
                /\ dbState' = "Unopened" => (mainPc = "exited" /\ mainPc' = "start")]_vars

\* InsertEvents on the closed store fails
C19_Witness ==
    /\ dbState = "Closed"
    /\ returned.input.kind = "InsertEvents"
    /\ returned.input.events # <<>>
    /\ returned.err = "failed to begin transaction: sql: database is closed"
    /\ rows # <<>>

NoDuplicates(catalog) ==
    \A j, k \in 1..Len(catalog) : catalog[j] = catalog[k] => j = k

\* C20: NewDatabase on a file that holds the schema already, or a part of
\* it, returns no error on account of that, adds only the objects that are
\* missing, so that no table or index exists twice, and leaves every
\* committed row in place.
C20_IdempotentSchema ==
    /\ [](/\ NoDuplicates(schema)
          /\ openErr # "failed to create database tables: table events already exists"
          /\ dbState = "Ready" => schema = SchemaObjects)
    /\ [][(mainPc = "start" /\ mainPc' # "start") =>
            /\ rows' = rows
            /\ \A k \in 1..Len(schema) : schema'[k] = schema[k]
            /\ schema = SchemaObjects =>
                  /\ schema' = schema
                  /\ openErr' \in {NoError,
                                   "failed to open database: sql: unknown driver",
                                   "failed to create database tables: unable to open database file"}]_vars

\* the agent serves again on the file of an earlier run: call 1 committed
\* its rows in the run that ended with the last call abandoned
C20_Witness ==
    /\ mainPc = "serving"
    /\ openErr = NoError
    /\ schema = SchemaObjects
    /\ pc[1] = "gone"
    /\ RowsOf(1) # <<>>
    /\ pc[NumCalls] = "killed"

\* the event breaks a constraint of the data model
ViolatesConstraint(event) ==
    \/ event.URL = ""
    \/ event.Type \notin EventTypes
    \/ event.TSUTC <= 0

\* C25: the table rejects, by its own constraints, every event that breaks
\* a constraint of the data model, when it is written without ValidateEvent.
C25_SchemaRejectsInvalid ==
    (vRow.err # Unset /\ ViolatesConstraint(vEvent)) => vRow.err # NoError

C30_IsoNotValidated ==
    /\ vResult # Unset =>
          /\ vResult = ValidateEvent([vEvent EXCEPT !.TSISO = "not a time"])
          /\ ~ViolatesConstraint(vEvent) => vResult = NoError
    /\ (vResult = NoError /\ vRow.err # Unset) =>
          /\ vRow.err = NoError
          /\ vRow.row[1].ts_iso = vEvent.TSISO
          /\ vRow.row[1].ts_utc = vEvent.TSUTC

\* ts_utc is one millisecond after the epoch, ts_iso a day of 2009
C30_Witness ==
    /\ vResult = NoError
    /\ vRow.err = NoError
    /\ vEvent.TSUTC = 1
    /\ vEvent.TSISO = "2009-02-13T23:31:30Z"
    /\ vRow.row[1].ts_iso = "2009-02-13T23:31:30Z"

\* the call that returned is a submission: an HTTP request to /events or a
\* Go caller's InsertEvents
InsertReturns == returned.input.kind \in {"events", "InsertEvents"}

\* C21: the committed rows only grow, at their end, no committed row ever
\* changes or disappears, and the only step that adds rows is the Commit
\* of an InsertEvents that returns nil, which adds rows of its batch only.
C21_AppendOnly ==
    [][/\ Len(rows') >= Len(rows)
       /\ \A k \in 1..Len(rows) : rows'[k] = rows[k]
       /\ rows' # rows =>
            /\ InsertReturns'
            /\ returned'.err = NoError
            /\ returned'.ops[Len(returned'.ops)] = "Commit"
            /\ \A k \in (Len(rows) + 1)..Len(rows') : rows'[k].call = returned'.call]_vars

\* a batch was rolled back after rows had been committed
C21_Witness ==
    /\ rows # <<>>
    /\ InsertReturns
    /\ Failed
    /\ Len(returned.ops) > 3
    /\ returned.ops[Len(returned.ops)] = "Rollback"

IdsOf(table) == {table[k].id : k \in 1..Len(table)}

\* C22: when a transaction ends, committed or rolled back, the identifier
\* the table hands out next is greater than every identifier the
\* transaction was given, so that no identifier is given out twice.
C22_IdsNeverReused ==
    [][\A c \in Calls :
         (staged[c] # <<>> /\ staged'[c] = <<>>) =>
            NextRowId(rows') > MaxOf(IdsOf(staged[c]))]_vars

\* C22: no two committed rows share an identifier, and every row a commit
\* adds has an identifier greater than that of every row committed before
\* it, in the order of the batch; the identifiers given to the rows of a
\* transaction that is rolled back are the ones given out next.
C22_CommittedIdsIncrease ==
    /\ [](\A j, k \in 1..Len(rows) : j < k => rows[j].id < rows[k].id)
    /\ [][/\ \A k \in (Len(rows) + 1)..Len(rows') :
               \A j \in 1..Len(rows) : rows'[k].id > rows[j].id
          /\ \A c \in Calls :
               (staged[c] # <<>> /\ staged'[c] = <<>> /\ rows' = rows) =>
                  NextRowId(rows') = staged[c][1].id]_vars

\* a batch is rolled back after its first row was written, in a table that
\* holds committed rows
C22_Witness ==
    /\ rows # <<>>
    /\ InsertReturns
    /\ returned.err \in ValidationErrors
    /\ returned.ops = <<"Begin", "Prepare", "Exec", "Rollback">>
    /\ NextRowId(rows) = Len(rows) + 1

\* C23: at most one transaction holds staged rows, and it holds the write
\* lock; the committed rows are whole batches one after another, each in
\* the order of its events and on consecutive identifiers.
C23_Serialized ==
    /\ Cardinality({c \in Calls : staged[c] # <<>>}) <= 1
    /\ \A c \in Calls : staged[c] # <<>> => writer = c
    /\ \A k \in 1..Len(rows) :
         /\ IF rows[k].idx = 1
            THEN k = 1 \/ rows[k - 1].idx = rows[k - 1].of
            ELSE /\ k > 1
                 /\ rows[k - 1].call = rows[k].call
                 /\ rows[k - 1].idx = rows[k].idx - 1
                 /\ rows[k].id = rows[k - 1].id + 1
         /\ k > 1 => rows[k].id > rows[k - 1].id
         /\ k = Len(rows) => rows[k].idx = rows[k].of

\* a transaction holds staged rows while another one, begun meanwhile, has
\* not written yet, and a batch is committed already
C23_Witness ==
    \E c, d \in Calls :
        /\ c # d
        /\ staged[c] # <<>>
        /\ writer = c
        /\ pc[d] = "loop"
        /\ i[d] = 1

\* C24: the store runs in write-ahead-log mode with a lock wait, and an
\* InsertEvents that fails on the write lock of another transaction has
\* waited for it first.
C24_WaitsOnContention ==
    returned.err = "failed to execute statement: database is locked" =>
        /\ JournalMode = "wal"
        /\ BusyTimeoutSet
        /\ \E k \in 1..Len(returned.ops) : returned.ops[k] = "busy_handler"

\* C26: the data_json of every committed row is valid JSON, and no row was
\* written for an event without a data mapping.
C26_DataRequired ==
    \A k \in 1..Len(rows) :
        /\ JsonValid(rows[k].data_json)
        /\ rows[k].data_json # "null"

\* C28: the rows of a successful POST hold the titles as submitted, null
\* as a null column and never as "", a string as that string; the one
\* event of Scenario B gives one row with a null title.
C28_TitlePersisted ==
    (NonEmptyPost /\ Succeeded) =>
        LET mine == RowsOf(returned.call)
            sent == returned.input.body.events
        IN /\ Len(mine) = Len(sent)
           /\ \A k \in 1..Len(mine) :
                /\ mine[k].title = sent[k].title
                /\ sent[k].title = <<>> => mine[k].title # <<"">>
           /\ sent = <<WireNavigate>> => (Len(mine) = 1 /\ mine[1].title = NilTitle)

\* Scenario B
C28_Witness ==
    /\ NonEmptyPost
    /\ Succeeded
    /\ returned.input.body.events = <<WireNavigate>>
    /\ Len(rows) = 1
    /\ rows[1].title = NilTitle
    /\ rows[1].call = returned.call

\* the fields of a row that come from its event
FieldsOf(r) == <<r.ts_utc, r.ts_iso, r.url, r.title, r.type, r.data_json>>

C31_ListenAddress ==
    serverAddress # Unset =>
        serverAddress = IF BROWSETRACE_ADDRESS \in {<<>>, <<"">>}
                        THEN "127.0.0.1:51425"
                        ELSE BROWSETRACE_ADDRESS[1]

\* C32: as the API documentation lists the responses of POST /events, a
\* request whose JSON is invalid or whose events fail validation gets 400,
\* and a database error gets 500.
C32_DocumentedStatuses ==
    (EventsRequest /\ returned.input.method = "POST") =>
        /\ DecodeBatch(returned.input.body).err => returned.status = 400
        /\ returned.err \in ValidationErrors => returned.status = 400
        /\ returned.err \in StorageErrors => returned.status = 500

\* C33: when InsertEvents returns, with or without an error, its
\* transaction is over: it holds no staged row and no write lock, and no
\* later call fails on a lock whose holder has returned.
C33_UnitOfWorkEnded ==
    /\ InsertReturns =>
          /\ staged[returned.call] = <<>>
          /\ writer # returned.call
    /\ \A c \in Calls : (staged[c] # <<>> \/ writer = c) => InFlight(c)

\* the number of statement.Exec calls among the database/sql calls made
Execs(made) == Len(SelectSeq(made, LAMBDA o : o = "Exec"))

Passes(event) == ValidateEvent(event) = NoError /\ MarshalData(event.Data) # <<>>

MarshalError == "failed to marshal event data: json: unsupported type"
ExecErrors ==
    {"failed to execute statement: disk I/O error",
     "failed to execute statement: database is locked",
     "failed to execute statement: constraint failed"}

\* C34: InsertEvents takes the events in batch order, validates each one in
\* the step that stages it, and stops at the first failure: the error it
\* returns is that of the first event in batch order that fails, every
\* event before that one was staged, and none after it was.
C34_FirstFailureInOrder ==
    /\ [](InsertReturns =>
            LET events == returned.input.events
                execs == Execs(returned.ops)
                k == IF returned.err \in ExecErrors THEN execs ELSE execs + 1
            IN
            (returned.err \in ValidationErrors \cup ExecErrors \cup {MarshalError}) =>
                /\ k \in 1..Len(events)
                /\ \A j \in 1..(k - 1) : Passes(events[j])
                /\ returned.err \in ValidationErrors =>
                      returned.err = "invalid event: " \o ValidateEvent(events[k])
                /\ returned.err = MarshalError =>
                      /\ ValidateEvent(events[k]) = NoError
                      /\ MarshalData(events[k].Data) = <<>>
                /\ returned.err \in ExecErrors => Passes(events[k])
                /\ returned.ops[Len(returned.ops)] = "Rollback")
    /\ [][\A c \in Calls :
            (staged'[c] # staged[c] /\ staged'[c] # <<>>) =>
                /\ pc[c] = "loop"
                /\ i[c] = Len(staged[c]) + 1
                /\ i'[c] = i[c] + 1
                /\ Passes(BatchOf(c)[i[c]])
                /\ staged'[c] = Append(staged[c], staged'[c][i[c]])
                /\ staged'[c][i[c]].idx = i[c]
                /\ FieldsOf(staged'[c][i[c]]) =
                      <<BatchOf(c)[i[c]].TSUTC, BatchOf(c)[i[c]].TSISO, BatchOf(c)[i[c]].URL,
                        BatchOf(c)[i[c]].Title, BatchOf(c)[i[c]].Type,
                        MarshalData(BatchOf(c)[i[c]].Data)[1]>>]_vars

\* of two faulty events of a batch the error is that of the first
C34_Witness ==
    /\ InsertReturns
    /\ returned.input.body.kind = "events-array"
    /\ returned.input.body.events = WireTwoFaults
    /\ returned.err = "invalid event: URL cannot be empty"
    /\ returned.ops = <<"Begin", "Prepare", "Rollback">>

\* the error InsertEvents returns for the event the model constraints
\* reject, from the fields of the event alone
RejectionOf(event) ==
    IF event.URL = "" THEN "invalid event: URL cannot be empty"
    ELSE IF event.Type = "" THEN "invalid event: Type cannot be empty"
    ELSE IF event.Type \notin EventTypes THEN "invalid event: invalid event type: " \o event.Type
    ELSE IF event.TSUTC <= 0 THEN "invalid event: timestamp must be positive"
    ELSE NoError

ClosedError == "failed to begin transaction: sql: database is closed"

\* C35: ValidateEvent is a pure check.  Whatever the table holds and
\* whatever other calls have staged, an event is rejected exactly for its
\* own fields, with the error those fields determine; the step that
\* rejects it makes no database/sql call but the Rollback of InsertEvents
\* and changes neither the committed rows, nor the rows other calls
\* staged, nor the handle, nor the schema, nor the batch; the step that
\* accepts an event leaves the batch as it was.
C35_ValidatePure ==
    /\ [](InsertReturns =>
            LET events == returned.input.events
                k == Execs(returned.ops) + 1
            IN
            /\ (Failed /\ returned.err \notin StorageErrors \cup ExecErrors
                                             \cup {MarshalError, ClosedError}) =>
                  /\ k \in 1..Len(events)
                  /\ returned.err = RejectionOf(events[k])
            /\ \A j \in 1..Len(events) :
                  (j <= Execs(returned.ops)) => RejectionOf(events[j]) = NoError)
    /\ [][\A c \in Calls :
            /\ (returned'.call = c /\ returned'.err \in ValidationErrors) =>
                  /\ returned'.ops = ops[c] \o <<"Rollback">>
                  /\ returned'.input = call[c]
                  /\ rows' = rows
                  /\ \A d \in Calls \ {c} : staged'[d] = staged[d]
                  /\ writer' \in {writer, 0}
                  /\ writer # c => writer' = writer
                  /\ dbState' = dbState
                  /\ schema' = schema
            /\ (InFlight(c) /\ InFlight(c)') => call'[c] = call[c]]_vars

\* an event is rejected while another call's transaction has rows staged
C35_Witness ==
    /\ InsertReturns
    /\ returned.err \in ValidationErrors
    /\ \E d \in Calls \ {returned.call} : staged[d] # <<>> /\ InFlight(d)

\* the process ends by log.Fatal in this step
AbruptExit == mainPc' = "exited" /\ dbState' = "Abandoned"

\* C36: when the process ends abruptly (the grace period runs out, or the
\* listener fails) the committed rows stay as they are and every staged
\* row is gone; once the store is opened again it holds no row of a batch
\* that was cut before its commit and every row of each batch that was
\* committed, and opening it changes no row.
C36_AtomicAcrossExit ==
    /\ [][AbruptExit =>
            /\ rows' = rows
            /\ \A c \in Calls : staged'[c] = <<>>
            /\ writer' = 0]_vars
    /\ [][(mainPc \in {"exited", "start"}) => (rows' = rows)]_vars
    /\ [](\A c \in Calls :
            /\ pc[c] = "killed" => RowsOf(c) = <<>>
            /\ \A k \in 1..Len(rows) :
                  rows[k].call = c => Len(RowsOf(c)) = rows[k].of)

\* the store is open again after an exit that cut a call with rows staged:
\* the batch committed before the exit is there, the cut one is not
C36_Witness ==
    /\ mainPc = "serving"
    /\ dbState = "Ready"
    /\ rows # <<>>
    /\ \E c \in Calls :
         /\ pc[c] = "killed"
         /\ i[c] > 1
         /\ RowsOf(c) = <<>>

(***************************************************************************)
(* The draft in main.go: the closures validateEvent and insertEvents and   *)
(* the handler of /events, run as one sequential call on a table.          *)
(***************************************************************************)
main_validEventTypes ==
    [t \in {"navigate", "visible_text", "click", "input", "scroll", "focus"} |-> TRUE]

main_validateEvent(event) ==
    IF event.URL = "" THEN "URL cannot be empty"
    ELSE IF event.Type = "" THEN "Type cannot be empty"
    ELSE IF ~MapLookup(main_validEventTypes, event.Type)
    THEN "invalid event type: " \o event.Type
    ELSE IF event.TSUTC <= 0 THEN "timestamp must be positive"
    ELSE NoError

\* what goes wrong in the store during a call: the database/sql call that
\* fails (of the Exec calls, the k-th) and the error it returns
Fault(op, k, cause) == [op |-> op, k |-> k, cause |-> cause]
NoFault == Fault("none", 0, "")

RECURSIVE main_range(_, _, _, _, _, _)
\* the range loop of insertEvents from event k on, and the Commit after it;
\* tx holds the rows written inside the transaction
main_range(events, k, table, tx, c, fault) ==
    IF k > Len(events)
    THEN IF fault.op = "Commit"
         THEN [err |-> "failed to commit transaction: " \o fault.cause, rows |-> table]
         ELSE [err |-> NoError, rows |-> table \o tx]
    ELSE LET event == events[k]
             invalid == main_validateEvent(event)
             jsonData == MarshalData(event.Data)
         IN
         IF invalid # NoError
         THEN [err |-> "invalid event: " \o invalid, rows |-> table]
         ELSE IF jsonData = <<>>
         THEN [err |-> "failed to marshal event data: json: unsupported type",
               rows |-> table]
         ELSE IF fault.op = "Exec" /\ fault.k = k
         THEN [err |-> "failed to execute statement: " \o fault.cause, rows |-> table]
         ELSE LET row == Row(NextRowId(table \o tx), event, jsonData[1], c, k,
                             Len(events)) IN
              IF createTables(row)
              THEN main_range(events, k + 1, table, Append(tx, row), c, fault)
              ELSE [err |-> "failed to execute statement: constraint failed",
                    rows |-> table]

main_insertEvents(events, table, c, fault) ==
    IF fault.op = "Begin"
    THEN [err |-> "failed to begin transaction: " \o fault.cause, rows |-> table]
    ELSE IF fault.op = "Prepare"
    THEN [err |-> "failed to prepare statement: " \o fault.cause, rows |-> table]
    ELSE main_range(events, 1, table, <<>>, c, fault)

\* a draft that answers 400 when an event is rejected
main_Respond_badRequest(e) ==
    IF e = NoError THEN [status |-> 204, body |-> ""]
    ELSE IF e \in {"invalid event: " \o t : t \in {"URL cannot be empty", "Type cannot be empty",
                        "invalid event type: hover", "timestamp must be positive"}}
    THEN [status |-> 400, body |-> "Invalid event\n"]
    ELSE [status |-> 500, body |-> "Failed to store events\n"]

\* the handler after insertEvents returned e
main_Respond(e) ==
    IF e # NoError
    THEN [status |-> 500, body |-> "Failed to store events\n"]
    ELSE [status |-> 204, body |-> ""]

\* the handler of /events: the response and the table it leaves
main_handleEvents(method, body, table, c, fault) ==
    IF method # "POST"
    THEN [status |-> 405, body |-> "POST only\n", rows |-> table]
    ELSE LET decoded == DecodeBatch(body) IN
         IF decoded.err
         THEN [status |-> 400, body |-> "Invalid JSON format\n", rows |-> table]
         ELSE IF Len(decoded.Events) = 0
         THEN [status |-> 204, body |-> "", rows |-> table]
         ELSE LET done == main_insertEvents(decoded.Events, table, c, fault)
                  response == main_Respond(done.err)
              IN [status |-> response.status, body |-> response.body, rows |-> done.rows]

\* the fault a call of the refactored agent met, read off its result
FaultOf(result) ==
    LET e == result.err IN
    IF e = "failed to begin transaction: database is locked"
    THEN Fault("Begin", 0, "database is locked")
    ELSE IF e = ClosedError THEN Fault("Begin", 0, "sql: database is closed")
    ELSE IF e = "failed to prepare statement: disk I/O error"
    THEN Fault("Prepare", 0, "disk I/O error")
    ELSE IF e = "failed to execute statement: disk I/O error"
    THEN Fault("Exec", Execs(result.ops), "disk I/O error")
    ELSE IF e = "failed to execute statement: database is locked"
    THEN Fault("Exec", Execs(result.ops), "database is locked")
    ELSE IF e = "failed to commit transaction: disk I/O error"
    THEN Fault("Commit", 0, "disk I/O error")
    ELSE IF e = "failed to commit transaction: database is locked"
    THEN Fault("Commit", 0, "database is locked")
    ELSE NoFault

\* the committed rows without those of call c
RowsBefore(c) == SelectSeq(rows, LAMBDA r : r.call # c)

\* C37: on every request to /events the refactored agent answers as the
\* draft does and leaves the table the draft leaves, when both start from
\* the same table and fail at the same database/sql call.
C37_DraftEquivalent ==
    EventsRequest =>
        LET draft == main_handleEvents(returned.input.method, returned.input.body,
                                       RowsBefore(returned.call), returned.call,
                                       FaultOf(returned))
        IN
        /\ draft.status = returned.status
        /\ draft.body = returned.body
        /\ draft.rows = rows

\* the second request of a sequence stores its batch after the rows of the
\* first
C37_Witness ==
    /\ NonEmptyPost
    /\ returned.status = 204
    /\ RowsBefore(returned.call) # <<>>
    /\ rows = RowsBefore(returned.call) \o RowsOf(returned.call)
    /\ Len(RowsOf(returned.call)) = MaxBatch

====
